---- MODULE Spec2Model ----
(***************************************************************************)
(* Model of add_mesh_torus.py: the twisted torus generator add_torus, the  *)
(* two UV mappers add_uvs (grid) and add_uvs_one_ribbon (ribbon), and the  *)
(* operator AddTorus.execute that runs them in sequence.                   *)
(*                                                                         *)
(* Loops are modelled one iteration per step.  Vertex coordinates are kept *)
(* as the pair (ring, cross-section angle), the angle being an integer in  *)
(* units of 2*pi/(major_seg*minor_seg) and measured from section_angle.    *)
(* UV coordinates are kept as their nominal rationals with fixed           *)
(* denominators: u is an integer in units of 1/UDen and v an integer in    *)
(* units of 1/VDen.  Float rounding noise far below one unit is not kept,  *)
(* but the one place where it changes a result by a whole step is: fmod of *)
(* 0.5 by the float 1.0/seg, which depends on whether that float lies      *)
(* above 1/seg.                                                            *)
(* The radii and section_angle only scale and shift the coordinates; they *)
(* do not enter the topology or the UVs and are left out of the state.     *)
(***************************************************************************)
EXTENDS Integers, Sequences, FiniteSets

VARIABLES
    major_segments,   \* operator property major_segments
    minor_segments,   \* operator property minor_segments
    section_twist,    \* operator property section_twist
    generate_uvs,     \* operator property generate_uvs
    pc,               \* position of the control flow of execute
    major_index,      \* outer loop index (add_torus, add_uvs)
    minor_index,      \* inner loop index (add_torus, add_uvs)
    i1,               \* add_torus: running flat index of the current vertex
    verts,            \* add_torus: flat coordinate list
    faces,            \* add_torus: flat index list, 4 per quad
    mesh,             \* the mesh datablock built by execute
    vertex_index,     \* add_uvs: running polygon index
    u_prev, u_next,   \* both mappers: running U interval
    v_prev, v_next,   \* add_uvs: running V interval
    offset,           \* add_uvs_one_ribbon: outer loop index
    idx,              \* add_uvs_one_ribbon: inner loop index
    called            \* the UV mappers execute has called

vars == <<major_segments, minor_segments, section_twist, generate_uvs, pc,
          major_index, minor_index, i1, verts, faces, mesh, vertex_index,
          u_prev, u_next, v_prev, v_next, offset, idx, called>>

----------------------------------------------------------------------------
(* Bounds of the explored parameter space.                                 *)

MaxMajor == 4
MaxMinor == 5
MaxTwist == 6

(* Property minima declared by the operator.                               *)
MinMajor == 3
MinMinor == 2
MinTwist == 0

(* The UV mode scenarios of the specification: minor_segments = 12 with    *)
(* section_twist = 12 and section_twist = 5; and the smallest segment      *)
(* count whose float step 1.0/seg lies above 1/seg, on either axis.        *)
Scenarios == { <<3, 12, 12>>, <<3, 12, 5>>, <<10, 2, 0>>, <<3, 10, 0>> }

ParamBox == { <<M, m, t>> \in (MinMajor..MaxMajor) \X (MinMinor..MaxMinor)
                               \X (MinTwist..MaxTwist) : TRUE }

Params == ParamBox \cup Scenarios

----------------------------------------------------------------------------
(* add_torus                                                               *)

\* tot_verts = major_seg * minor_seg
TotVerts(major_seg, minor_seg) == major_seg * minor_seg

\* Mutant: the seam wrap ignores the twist.
Wrap_NoTwist(index, tot_verts, twist, minor_seg) ==
    IF index >= tot_verts THEN (index - tot_verts) % minor_seg ELSE index

\* Mutant: the seam wrap reduces modulo the vertex count, not the ring size.
Wrap_ModTot(index, tot_verts, twist, minor_seg) ==
    IF index >= tot_verts THEN (index - tot_verts + twist) % tot_verts
    ELSE index

\* if i >= tot_verts: i = (i - tot_verts + section_twist) % minor_seg
Wrap(index, tot_verts, twist, minor_seg) ==
    IF index >= tot_verts THEN (index - tot_verts + twist) % minor_seg
    ELSE index

\* The four corner indices before the seam wrap is applied.
RawIndices(maj, min, first, minor_seg) ==
    IF minor_seg > 2 /\ min + 1 = minor_seg
    THEN [i1 |-> first,
          i2 |-> maj * minor_seg,
          i3 |-> first + minor_seg,
          i4 |-> maj * minor_seg + minor_seg]
    ELSE [i1 |-> first,
          i2 |-> first + 1,
          i3 |-> first + minor_seg,
          i4 |-> first + minor_seg + 1]

\* The four corner indices of the quad built at (maj, min).
FaceIndices(maj, min, first, major_seg, minor_seg, twist) ==
    LET raw == RawIndices(maj, min, first, minor_seg)
        tot == TotVerts(major_seg, minor_seg)
    IN  [i1 |-> raw.i1,
         i2 |-> Wrap(raw.i2, tot, twist, minor_seg),
         i3 |-> Wrap(raw.i3, tot, twist, minor_seg),
         i4 |-> Wrap(raw.i4, tot, twist, minor_seg)]

\* Mutant: the quad is emitted starting from the major neighbour.
Quad_Rotated(f) == <<f.i3, f.i4, f.i2, f.i1>>

\* faces.extend([i1, i3, i4, i2])
Quad(f) == <<f.i1, f.i3, f.i4, f.i2>>

\* Cross-section angle of vertex (maj, min) minus section_angle, in units of
\* 2*pi/(major_seg*minor_seg): 2*pi*min/minor_seg + maj*twist_step_angle.
Angle(maj, min, major_seg, twist) == min * major_seg + maj * twist

\* vec[:] : the three coordinates of the vertex, each a function of the
\* ring rotation (maj/major_seg turns) and the cross-section angle.
Vec(maj, ang) ==
    << [axis |-> "x", ring |-> maj, angle |-> ang],
       [axis |-> "y", ring |-> maj, angle |-> ang],
       [axis |-> "z", ring |-> maj, angle |-> ang] >>

----------------------------------------------------------------------------
(* UV arithmetic                                                           *)

\* Denominator of every U coordinate: 1.0 is UDen units.
UDen(major_seg, minor_seg) == 2 * major_seg * minor_seg

\* Denominator of every V coordinate: 1.0 is VDen units.
VDen(minor_seg) == 2 * minor_seg

\* Significant bits of a double.
MantissaBits == 53

\* Binary long division of 1 by seg: r is the running remainder, sig the
\* number of significant bits produced, last the latest bit.  Returns
\* whether round-to-nearest-even at MantissaBits bits rounds upward.
RECURSIVE QuotientRoundsUp(_, _, _, _)
QuotientRoundsUp(r, seg, sig, last) ==
    IF sig = MantissaBits
    THEN 2 * r > seg \/ (2 * r = seg /\ last = 1)
    ELSE LET bit == IF 2 * r >= seg THEN 1 ELSE 0
         IN  QuotientRoundsUp(2 * r - seg * bit, seg,
                              IF sig > 0 \/ bit = 1 THEN sig + 1 ELSE 0, bit)

\* u_step = 1.0 / major_seg: whether the float quotient lies above 1/seg.
StepAbove(seg) == QuotientRoundsUp(1, seg, 0, 0)

\* math.fmod(x, y) = x - y * trunc(x / y), exact on the float operands; x
\* and y are the nominal values and above says that the float y exceeds its
\* nominal value.  When y nominally divides x and the float y is larger,
\* the quotient truncates one lower and the result is just under y.
FMod(x, y, above) ==
    LET exact == x - y * (x \div y)
    IN  IF exact = 0 /\ above /\ x >= y THEN y ELSE exact

\* u_init = 0.5 + fmod(0.5, u_step), with u_step = 1.0 / seg
GridInit(one, seg) ==
    (one \div 2) + FMod(one \div 2, one \div seg, StepAbove(seg))

\* u_wrap = 1.0 - (u_step / 2.0)
GridWrap(one, step) == one - (step \div 2)

\* if next > wrap: prev = next - 1.0 else: prev = next
GridAdvance(next, one, step) ==
    IF next > GridWrap(one, step) THEN next - one ELSE next

\* Mutant: the UV mode test compares the twist with zero.
UseGrid_ZeroOnly(twist, minor_seg) == twist = 0

\* self.section_twist % self.minor_segments == 0
UseGrid(twist, minor_seg) == twist % minor_seg = 0

\* range(0, nbr_loops, 4)
LoopStart(nbr_loops) == [k \in 1..((nbr_loops + 3) \div 4) |-> 4 * (k - 1)]

\* polygons[k].loop_indices
LoopIndices(msh, k) ==
    [n \in 1..msh.loop_total[k + 1] |-> msh.loop_start[k + 1] + n - 1]

\* uv_data[loops[0]].uv = a; [1] = b; [3] = d; [2] = c
SetFaceUVs(uv_data, loops, a, b, c, d) ==
    [l \in 1..Len(uv_data) |->
        IF l = loops[3] + 1 THEN c
        ELSE IF l = loops[4] + 1 THEN d
        ELSE IF l = loops[2] + 1 THEN b
        ELSE IF l = loops[1] + 1 THEN a
        ELSE uv_data[l]]

\* off = (offset * section_twist) % minor_seg
RibbonOff(k, twist, minor_seg) == (k * twist) % minor_seg

\* polygons[idx * minor_seg + off]
RibbonFace(k, n, twist, minor_seg) ==
    n * minor_seg + RibbonOff(k, twist, minor_seg)

----------------------------------------------------------------------------
(* State machine of AddTorus.execute                                       *)

NoMesh == [vertices |-> 0, co |-> <<>>, loop_start |-> <<>>,
           loop_total |-> <<>>, loops |-> <<>>, uv_layers |-> <<>>]

Init ==
    /\ \E p \in Params :
          /\ major_segments = p[1]
          /\ minor_segments = p[2]
          /\ section_twist = p[3]
    /\ generate_uvs \in BOOLEAN
    /\ pc = "execute"
    /\ major_index = 0
    /\ minor_index = 0
    /\ i1 = 0
    /\ verts = <<>>
    /\ faces = <<>>
    /\ mesh = NoMesh
    /\ vertex_index = 0
    /\ u_prev = 0
    /\ u_next = 0
    /\ v_prev = 0
    /\ v_next = 0
    /\ offset = 0
    /\ idx = 0
    /\ called = {}

\* execute calls add_torus: the locals before the first iteration.
Execute ==
    /\ pc = "execute"
    /\ pc' = "add_torus"
    /\ verts' = <<>>
    /\ faces' = <<>>
    /\ i1' = 0
    /\ major_index' = 0
    /\ minor_index' = 0
    /\ UNCHANGED <<major_segments, minor_segments, section_twist,
                   generate_uvs, mesh, vertex_index, u_prev, u_next,
                   v_prev, v_next, offset, idx, called>>

\* One iteration of the inner loop of add_torus.
AddTorusStep ==
    /\ pc = "add_torus"
    /\ major_index < major_segments
    /\ LET f == FaceIndices(major_index, minor_index, i1, major_segments,
                            minor_segments, section_twist)
           ang == Angle(major_index, minor_index, major_segments,
                        section_twist)
       IN  /\ verts' = verts \o Vec(major_index, ang)
           /\ faces' = faces \o Quad(f)
    /\ i1' = i1 + 1
    /\ IF minor_index + 1 < minor_segments
       THEN /\ minor_index' = minor_index + 1
            /\ major_index' = major_index
       ELSE /\ minor_index' = 0
            /\ major_index' = major_index + 1
    /\ UNCHANGED <<major_segments, minor_segments, section_twist,
                   generate_uvs, pc, mesh, vertex_index, u_prev, u_next,
                   v_prev, v_next, offset, idx, called>>

\* add_torus returns; execute creates the mesh and fills its buffers.
BuildMesh ==
    /\ pc = "add_torus"
    /\ major_index = major_segments
    /\ LET nbr_loops == Len(faces)
           nbr_polys == nbr_loops \div 4
       IN  mesh' = [vertices |-> Len(verts) \div 3,
                    co |-> verts,
                    loop_start |-> LoopStart(nbr_loops),
                    loop_total |-> [k \in 1..nbr_polys |-> 4],
                    loops |-> faces,
                    uv_layers |-> <<>>]
    /\ pc' = "generate_uvs"
    /\ UNCHANGED <<major_segments, minor_segments, section_twist,
                   generate_uvs, major_index, minor_index, i1, verts, faces,
                   vertex_index, u_prev, u_next, v_prev, v_next, offset,
                   idx, called>>

\* A new UV layer: one (0, 0) pair per loop.
NewLayer(msh) == [l \in 1..Len(msh.loops) |-> <<0, 0>>]

\* generate_uvs is off: no mapper is called.
SkipUVs ==
    /\ pc = "generate_uvs"
    /\ ~generate_uvs
    /\ pc' = "update"
    /\ UNCHANGED <<major_segments, minor_segments, section_twist,
                   generate_uvs, major_index, minor_index, i1, verts, faces,
                   mesh, vertex_index, u_prev, u_next, v_prev, v_next,
                   offset, idx, called>>

\* execute calls add_uvs: the locals before the first iteration.
CallAddUvs ==
    /\ pc = "generate_uvs"
    /\ generate_uvs
    /\ UseGrid(section_twist, minor_segments)
    /\ LET uone == UDen(major_segments, minor_segments)
           vone == VDen(minor_segments)
           u_step == uone \div major_segments
           v_step == vone \div minor_segments
       IN  /\ u_prev' = GridInit(uone, major_segments)
           /\ u_next' = GridInit(uone, major_segments) + u_step
           /\ v_prev' = GridInit(vone, minor_segments)
           /\ v_next' = GridInit(vone, minor_segments) + v_step
    /\ mesh' = [mesh EXCEPT !.uv_layers = Append(@, NewLayer(mesh))]
    /\ vertex_index' = 0
    /\ major_index' = 0
    /\ minor_index' = 0
    /\ called' = called \cup {"add_uvs"}
    /\ pc' = "add_uvs"
    /\ UNCHANGED <<major_segments, minor_segments, section_twist,
                   generate_uvs, i1, verts, faces, offset, idx>>

\* One iteration of the inner loop of add_uvs; the last iteration of a ring
\* also advances U and restarts V.
AddUvsStep ==
    /\ pc = "add_uvs"
    /\ major_index < major_segments
    /\ LET uone == UDen(major_segments, minor_segments)
           vone == VDen(minor_segments)
           u_step == uone \div major_segments
           v_step == vone \div minor_segments
           layer == Len(mesh.uv_layers)
           loops == LoopIndices(mesh, vertex_index)
           v_adv == GridAdvance(v_next, vone, v_step)
           u_adv == GridAdvance(u_next, uone, u_step)
       IN  /\ mesh' = [mesh EXCEPT !.uv_layers[layer] =
                          SetFaceUVs(@, loops, <<u_prev, v_prev>>,
                                     <<u_next, v_prev>>, <<u_next, v_next>>,
                                     <<u_prev, v_next>>)]
           /\ IF minor_index + 1 < minor_segments
              THEN /\ minor_index' = minor_index + 1
                   /\ major_index' = major_index
                   /\ v_prev' = v_adv
                   /\ v_next' = v_adv + v_step
                   /\ UNCHANGED <<u_prev, u_next>>
              ELSE /\ minor_index' = 0
                   /\ major_index' = major_index + 1
                   /\ u_prev' = u_adv
                   /\ u_next' = u_adv + u_step
                   /\ IF major_index + 1 < major_segments
                      THEN /\ v_prev' = GridInit(vone, minor_segments)
                           /\ v_next' = GridInit(vone, minor_segments) + v_step
                      ELSE /\ v_prev' = v_adv
                           /\ v_next' = v_adv + v_step
    /\ vertex_index' = vertex_index + 1
    /\ UNCHANGED <<major_segments, minor_segments, section_twist,
                   generate_uvs, pc, i1, verts, faces, offset, idx, called>>

\* add_uvs returns.
AddUvsReturn ==
    /\ pc = "add_uvs"
    /\ major_index = major_segments
    /\ pc' = "update"
    /\ UNCHANGED <<major_segments, minor_segments, section_twist,
                   generate_uvs, major_index, minor_index, i1, verts, faces,
                   mesh, vertex_index, u_prev, u_next, v_prev, v_next,
                   offset, idx, called>>

\* execute calls add_uvs_one_ribbon: the locals before the first iteration.
CallAddUvsOneRibbon ==
    /\ pc = "generate_uvs"
    /\ generate_uvs
    /\ ~UseGrid(section_twist, minor_segments)
    /\ mesh' = [mesh EXCEPT !.uv_layers = Append(@, NewLayer(mesh))]
    /\ u_next' = 0
    /\ u_prev' = 0
    /\ offset' = 0
    /\ idx' = 0
    /\ called' = called \cup {"add_uvs_one_ribbon"}
    /\ pc' = "add_uvs_one_ribbon"
    /\ UNCHANGED <<major_segments, minor_segments, section_twist,
                   generate_uvs, major_index, minor_index, i1, verts, faces,
                   vertex_index, v_prev, v_next>>

\* One iteration of the inner loop of add_uvs_one_ribbon.
RibbonStep ==
    /\ pc = "add_uvs_one_ribbon"
    /\ offset < minor_segments
    /\ LET count == major_segments * minor_segments
           u_step == UDen(major_segments, minor_segments) \div count
           vone == VDen(minor_segments)
           layer == Len(mesh.uv_layers)
           face == RibbonFace(offset, idx, section_twist, minor_segments)
           loops == LoopIndices(mesh, face)
           lo == u_next
           hi == u_next + u_step
       IN  /\ u_prev' = lo
           /\ u_next' = hi
           /\ mesh' = [mesh EXCEPT !.uv_layers[layer] =
                          SetFaceUVs(@, loops, <<lo, 0>>, <<hi, 0>>,
                                     <<hi, vone>>, <<lo, vone>>)]
    /\ IF idx + 1 < major_segments
       THEN /\ idx' = idx + 1
            /\ offset' = offset
       ELSE /\ idx' = 0
            /\ offset' = offset + 1
    /\ UNCHANGED <<major_segments, minor_segments, section_twist,
                   generate_uvs, pc, major_index, minor_index, i1, verts,
                   faces, vertex_index, v_prev, v_next, called>>

\* add_uvs_one_ribbon returns.
RibbonReturn ==
    /\ pc = "add_uvs_one_ribbon"
    /\ offset = minor_segments
    /\ pc' = "update"
    /\ UNCHANGED <<major_segments, minor_segments, section_twist,
                   generate_uvs, major_index, minor_index, i1, verts, faces,
                   mesh, vertex_index, u_prev, u_next, v_prev, v_next,
                   offset, idx, called>>

\* mesh.update(), object_data_add, return {'FINISHED'}.
Finish ==
    /\ pc = "update"
    /\ pc' = "done"
    /\ UNCHANGED <<major_segments, minor_segments, section_twist,
                   generate_uvs, major_index, minor_index, i1, verts, faces,
                   mesh, vertex_index, u_prev, u_next, v_prev, v_next,
                   offset, idx, called>>

Next ==
    \/ Execute
    \/ AddTorusStep
    \/ BuildMesh
    \/ SkipUVs
    \/ CallAddUvs
    \/ AddUvsStep
    \/ AddUvsReturn
    \/ CallAddUvsOneRibbon
    \/ RibbonStep
    \/ RibbonReturn
    \/ Finish

Spec == Init /\ [][Next]_vars

----------------------------------------------------------------------------
(* Derived views of the state used by the properties                       *)

\* Number of vertices the parameters call for.
N == major_segments * minor_segments

\* Number of quads emitted so far.
NFaces == Len(faces) \div 4

\* Quad k of the emitted face list, by the role of each corner.
Face(k) == [i1 |-> faces[4 * k + 1], i3 |-> faces[4 * k + 2],
            i4 |-> faces[4 * k + 3], i2 |-> faces[4 * k + 4]]

\* The cycle of quad k in emission order; position p is 0..3.
Corner(k, p) == faces[4 * k + p + 1]

\* The directed edge leaving position p of quad k.
DirEdge(k, p) == <<Corner(k, p), Corner(k, (p + 1) % 4)>>

\* The same edge without direction.
UndirEdge(k, p) == {Corner(k, p), Corner(k, (p + 1) % 4)}

\* All (quad, position) pairs of the emitted face list.
EdgeSlots == (0..(NFaces - 1)) \X (0..3)

\* The (quad, position) pairs lying on the undirected edge e.
SlotsOn(e) == {s \in EdgeSlots : UndirEdge(s[1], s[2]) = e}

\* The UV pair stored for loop n (0..3) of polygon k in the active layer.
UVOf(k, n) ==
    mesh.uv_layers[Len(mesh.uv_layers)][LoopIndices(mesh, k)[n + 1] + 1]

\* Ring and cross-section angle of vertex v as stored in the mesh.
RingOf(v) == mesh.co[3 * v + 1].ring
AngleOf(v) == mesh.co[3 * v + 1].angle

\* The face visited by the q-th iteration (from 0) of the ribbon mapper.
Visited(q) == RibbonFace(q \div major_segments, q % major_segments,
                         section_twist, minor_segments)

\* Number of ribbon iterations completed.
Visits == offset * major_segments + idx

Built == pc \in {"generate_uvs", "add_uvs", "add_uvs_one_ribbon",
                 "update", "done"}

----------------------------------------------------------------------------
(* Properties                                                              *)

\* C1: every quad emitted by add_torus has four pairwise distinct vertex
\* indices, each within [0, major_segments*minor_segments).
C1_DistinctInRange ==
    \A k \in 0..(NFaces - 1) :
        /\ Cardinality({Face(k).i1, Face(k).i2, Face(k).i3, Face(k).i4}) = 4
        /\ \A p \in 0..3 : Corner(k, p) \in 0..(N - 1)

\* C2: with section_twist = 0 the finished face list is a closed manifold:
\* every undirected edge of a quad lies on exactly two faces.
C2_ManifoldUntwisted ==
    (pc = "done" /\ section_twist = 0) =>
        \A s \in EdgeSlots :
            /\ Cardinality(UndirEdge(s[1], s[2])) = 2
            /\ Cardinality(SlotsOn(UndirEdge(s[1], s[2]))) = 2
            /\ Cardinality({t[1] : t \in SlotsOn(UndirEdge(s[1], s[2]))}) = 2

\* C3: the face list differs from the untwisted one only at corners whose
\* computed index points past the last ring: such a corner is the untwisted
\* wrapped index shifted by section_twist modulo minor_segments, every other
\* corner is unchanged, and in the last ring i3 = (j + twist) mod minor and
\* i4 = ((j + 1) mod minor + twist) mod minor.
C3_TwistOnlyAtSeam ==
    \A k \in 0..(NFaces - 1) :
        LET i == k \div minor_segments
            j == k % minor_segments
            raw == RawIndices(i, j, k, minor_segments)
            flat == FaceIndices(i, j, k, major_segments, minor_segments, 0)
            Shifted(c) ==
                IF raw[c] >= N
                THEN Face(k)[c] = (flat[c] + section_twist) % minor_segments
                ELSE Face(k)[c] = flat[c]
        IN  /\ \A c \in {"i1", "i2", "i3", "i4"} : Shifted(c)
            /\ i = major_segments - 1 =>
                  /\ Face(k).i3 = (j + section_twist) % minor_segments
                  /\ Face(k).i4 = (((j + 1) % minor_segments) + section_twist)
                                      % minor_segments

\* C3 witness: a finished mesh whose twist exceeds the ring size, is not a
\* multiple of it, and whose last quad wraps to a shifted index.
C3_Witness ==
    /\ pc = "done"
    /\ section_twist > minor_segments
    /\ section_twist % minor_segments # 0
    /\ NFaces = N
    /\ Face(N - 1).i3 # minor_segments - 1

\* C4: after the ribbon mapper has run, the N faces carry pairwise distinct
\* U intervals [k/N, (k+1)/N], k = 0..N-1, with V = 0 and V = 1 on the two
\* long edges: no face is left unassigned and none is overwritten.
C4_RibbonCoversAllFaces ==
    (pc = "done" /\ "add_uvs_one_ribbon" \in called) =>
        LET step == UDen(major_segments, minor_segments) \div N
            one == VDen(minor_segments)
            Holds(f, k) ==
                /\ UVOf(f, 0) = <<k * step, 0>>
                /\ UVOf(f, 1) = <<(k + 1) * step, 0>>
                /\ UVOf(f, 2) = <<(k + 1) * step, one>>
                /\ UVOf(f, 3) = <<k * step, one>>
        IN  /\ \A f \in 0..(N - 1) : \E k \in 0..(N - 1) : Holds(f, k)
            /\ \A k \in 0..(N - 1) :
                  Cardinality({f \in 0..(N - 1) : Holds(f, k)}) = 1

\* C5: when generate_uvs is set exactly one mapper runs, add_uvs if and only
\* if section_twist mod minor_segments = 0 and add_uvs_one_ribbon otherwise;
\* when it is not set, neither runs.
C5_ModeSelection ==
    /\ Cardinality(called) <= 1
    /\ Len(mesh.uv_layers) = Cardinality(called)
    /\ pc = "add_uvs" => called = {"add_uvs"}
    /\ pc = "add_uvs_one_ribbon" => called = {"add_uvs_one_ribbon"}
    /\ pc \in {"execute", "add_torus", "generate_uvs"} => called = {}
    /\ pc \in {"update", "done"} =>
          called = IF ~generate_uvs THEN {}
                   ELSE IF section_twist % minor_segments = 0
                        THEN {"add_uvs"}
                        ELSE {"add_uvs_one_ribbon"}

\* C5 witness: minor_segments = 12 with section_twist = 12 finished in grid
\* mode.
C5_Witness ==
    /\ pc = "done"
    /\ generate_uvs
    /\ minor_segments = 12
    /\ section_twist = 12
    /\ called = {"add_uvs"}

\* C6: after the grid mapper has run, face k = i*minor_segments + j holds
\* the axis-aligned cell [u, u + 1/major] x [v, v + 1/minor] whose lower
\* corner is a multiple of the step on each axis, every coordinate lies in
\* [0, 1], the first cell starts at 0.5 + (0.5 mod step) on each axis, and
\* each of the major x minor cells of the unit square is taken exactly once.
C6_GridTiling ==
    (pc \in {"update", "done"} /\ "add_uvs" \in called) =>
        LET uone == UDen(major_segments, minor_segments)
            vone == VDen(minor_segments)
            us == uone \div major_segments
            vs == vone \div minor_segments
            IsCell(f, a, b) ==
                /\ UVOf(f, 0) = <<a * us, b * vs>>
                /\ UVOf(f, 1) = <<(a + 1) * us, b * vs>>
                /\ UVOf(f, 2) = <<(a + 1) * us, (b + 1) * vs>>
                /\ UVOf(f, 3) = <<a * us, (b + 1) * vs>>
        IN  /\ \A f \in 0..(N - 1) : \A n \in 0..3 :
                  /\ UVOf(f, n)[1] \in 0..uone
                  /\ UVOf(f, n)[2] \in 0..vone
                  /\ UVOf(f, n)[1] % us = 0
                  /\ UVOf(f, n)[2] % vs = 0
            /\ \A a \in 0..(major_segments - 1) :
                  \A b \in 0..(minor_segments - 1) :
                      Cardinality({f \in 0..(N - 1) : IsCell(f, a, b)}) = 1
            /\ UVOf(0, 0) = << (uone \div 2) + ((uone \div 2) % us),
                               (vone \div 2) + ((vone \div 2) % vs) >>

\* C7: add_torus returns N vertices of three coordinates each in row-major
\* ring order and N quads of four indices; face k occupies loops 4k..4k+3
\* and its first index is k.
C7_Counts ==
    /\ Len(faces) = 4 * i1
    /\ Len(verts) = 3 * i1
    /\ \A k \in 0..(NFaces - 1) : faces[4 * k + 1] = k
    /\ \A k \in 0..(i1 - 1) : \A c \in 1..3 :
          /\ verts[3 * k + c].ring = k \div minor_segments
          /\ verts[3 * k + c].angle =
                Angle(k \div minor_segments, k % minor_segments,
                      major_segments, section_twist)
    /\ Built =>
          /\ Len(verts) = 3 * N
          /\ Len(faces) = 4 * N
          /\ mesh.vertices = N
          /\ Len(mesh.loops) = 4 * N
          /\ Len(mesh.loop_start) = N
          /\ Len(mesh.loop_total) = N
          /\ \A k \in 0..(N - 1) :
                /\ mesh.loop_start[k + 1] = 4 * k
                /\ mesh.loop_total[k + 1] = 4
                /\ mesh.loops[mesh.loop_start[k + 1] + 1] = k

\* C7 witness: a built mesh of a twisted two-sided cross-section.
C7_Witness ==
    /\ pc = "generate_uvs"
    /\ minor_segments = 2
    /\ section_twist = 1
    /\ mesh.vertices = N
    /\ Len(mesh.loop_start) = N

\* C8: in ribbon mode, for every two faces visited consecutively the
\* earlier face's far edge (i3, i4) is the later face's near edge (i1, i2)
\* and both faces give those shared vertices the same UVs, (u, 0) and
\* (u, 1).
C8_RibbonContinuity ==
    (pc = "add_uvs_one_ribbon" /\ Visits >= 2) =>
        LET earlier == Visited(Visits - 2)
            later == Visited(Visits - 1)
        IN  /\ Face(earlier).i3 = Face(later).i1
            /\ Face(earlier).i4 = Face(later).i2
            /\ UVOf(earlier, 1) = UVOf(later, 0)
            /\ UVOf(earlier, 2) = UVOf(later, 3)
            /\ UVOf(later, 0) = <<u_prev, 0>>
            /\ UVOf(later, 3) = <<u_prev, VDen(minor_segments)>>

\* C9: for minor_segments >= 3 and any section_twist the finished face list
\* is a closed manifold with consistent winding: every undirected edge lies
\* on exactly two faces, which traverse it in opposite directions.
C9_ManifoldWinding ==
    (pc = "done" /\ minor_segments >= 3) =>
        \A s \in EdgeSlots :
            LET on == SlotsOn(UndirEdge(s[1], s[2]))
            IN  /\ Cardinality(UndirEdge(s[1], s[2])) = 2
                /\ Cardinality(on) = 2
                /\ \A t \in on \ {s} :
                      /\ t[1] # s[1]
                      /\ DirEdge(t[1], t[2]) =
                            <<DirEdge(s[1], s[2])[2], DirEdge(s[1], s[2])[1]>>

\* C9 witness: a finished mesh with minor_segments >= 3 whose twist is
\* neither zero nor a multiple of the ring size, the seam joining the last
\* ring to shifted vertices of ring 0.
C9_Witness ==
    /\ pc = "done"
    /\ minor_segments = 3
    /\ section_twist = 4
    /\ NFaces = N
    /\ Face(N - minor_segments).i3 = 1

\* C10: for every face, i3 lies in ring (i+1) mod major_segments with
\* angle congruent to angle(i1) + section_twist modulo N, and i4 likewise
\* relative to i2.
C10_SeamAngles ==
    pc = "done" =>
        \A k \in 0..(N - 1) :
            LET next == ((k \div minor_segments) + 1) % major_segments
                f == Face(k)
            IN  /\ RingOf(f.i3) = next
                /\ AngleOf(f.i3) % N = (AngleOf(f.i1) + section_twist) % N
                /\ RingOf(f.i4) = next
                /\ AngleOf(f.i4) % N = (AngleOf(f.i2) + section_twist) % N

====
